---- MODULE Spec2Model ----
(***************************************************************************)
(* HyperLiquid listing alerts: the token-details monitor                   *)
(* (token_details_monitor.py) and the pair monitor (hyperliquid_monitor.py)*)
(* as state machines.  Each monitor is a poll loop; the token monitor      *)
(* walks the files of the token_details directory, the pair monitor walks  *)
(* the assets of a fetched spot-market snapshot.                           *)
(***************************************************************************)
EXTENDS Integers, Sequences, FiniteSets, TLC

(***************************************************************************)
(* Bounds of the model.                                                    *)
(***************************************************************************)
\* number of distinct non-null price strings "1" .. "MaxPx"
MaxPx == 2
\* longest token list of a fetched spot-market snapshot
MaxAssets == 2

(***************************************************************************)
(* The sleeps of the two main loops, in milliseconds.                      *)
(***************************************************************************)
TokenPollDelay == 1000
TokenFailureDelay == 60000
PairPollDelay == 500
PairFailureDelay == 60000

(***************************************************************************)
(* Values and records.  A JSON object is a function from a set of field    *)
(* names to values; every value is a string, Python's None is NoneVal.     *)
(***************************************************************************)
NoneVal == "None"

Prices == {ToString(i) : i \in 1..MaxPx}

Fields == {"name", "midPx", "markPx"}

FieldValues(k) ==
    CASE k = "name"   -> {"A", "B"}
      [] k = "midPx"  -> {NoneVal} \cup Prices
      [] k = "markPx" -> {"7", "8"}

AllValues == {"A", "B", "7", "8", NoneVal} \cup Prices

\* every JSON object over Fields
Records ==
    UNION { {r \in [D -> AllValues] : \A k \in D : r[k] \in FieldValues(k)}
            : D \in SUBSET Fields }

\* what reading a file of the directory can give besides a JSON object:
\* a file json.load (or open) raises on, and valid JSON that is no object
\* (each is a function over a key no JSON object of the model has, so that
\* every content compares with every other)
Unparseable == [k \in {"!unparseable"} |-> NoneVal]
NonObject == [k \in {"!non-object"} |-> NoneVal]
\* no such file
Absent == [k \in {"!absent"} |-> NoneVal]

Contents == Records \cup {Unparseable, NonObject}

\* isinstance(data, dict)
IsObject(c) == DOMAIN c \subseteq Fields

EmptyRec == [k \in {} |-> NoneVal]

(***************************************************************************)
(* The token_details directory.                                            *)
(***************************************************************************)
TokenIds == {"t1", "t2"}

\* os.path.join(token_details_dir, f"{token_id}.json")
FileOf(t) == CASE t = "t1" -> "t1.json" [] t = "t2" -> "t2.json"

JsonFiles == {FileOf(t) : t \in TokenIds}

\* a directory entry that does not end with .json
OtherFiles == {"README.txt"}

DirEntries == JsonFiles \cup OtherFiles

\* filename.endswith('.json')
EndsWithJson(f) == f \in JsonFiles

\* a token that is not tradeable yet, and the same token once it is
Listed == [k \in {"name", "midPx"} |-> IF k = "name" THEN "A" ELSE NoneVal]
Tradeable == [k \in {"name", "midPx"} |-> IF k = "name" THEN "A" ELSE "1"]

\* what the tokenDetails endpoint answers with, when it answers
ApiDetails == {Listed}

\* what a read of the file can give: every content for the first token's
\* file, a few for the second's, which is there for what one file's
\* processing leaves of the other's entries
FileContents(f) ==
    IF f = "t1.json"
    THEN Contents
    ELSE {Unparseable, Listed, Tradeable}

\* filename.replace('.json', '')
TokenIdOf(f) == CHOOSE t \in TokenIds : FileOf(t) = f

VARIABLES
    previous_states,          \* TokenDetailsMonitor.previous_states
    price_transition_states,  \* TokenDetailsMonitor.price_transition_states
    tm_pc,                    \* where the token monitor's main loop stands
    tm_delay,                 \* the argument of the time.sleep it is in, in milliseconds
    tm_todo,                  \* directory entries the current cycle has yet to visit
    tm_alerts,                \* webhook calls of the last step, in order
    last_seen,                \* per file, the content of its last processed read
    ever_transition,          \* files a "now tradeable" alert was emitted for
    undelivered,              \* files whose last processed read had a failed delivery
    tm_visit,                 \* the directory entry the last step visited, and how
    known_pairs,              \* HyperLiquidMonitor.known_pairs
    cache_file,               \* hyperliquid_pairs_cache.json
    token_files,              \* token_details/<token_id>.json, per token id
    pm_pc,                    \* where the pair monitor's main loop stands
    pm_delay,                 \* the argument of the time.sleep it is in, in milliseconds
    market_data,              \* check_for_updates: was data fetched, and its pair names
    pm_assets,                \* check_for_updates: assets the for loop has yet to visit
    current_pairs,            \* check_for_updates: current_pairs
    pm_notified,              \* notify_new_pair calls of the last step
    system_alert,             \* the last send_system_alert call (system webhook)
    cycle_notified,           \* pair names notified since the cycle's fetch
    announced,                \* names notified and in every snapshot fetched since
    pm_write                  \* save_token_details: the file it has open, and how far it wrote

tmVars == <<previous_states, price_transition_states, tm_pc, tm_delay, tm_todo,
            tm_alerts, last_seen, ever_transition, undelivered, tm_visit>>

pmVars == <<known_pairs, cache_file, token_files, pm_pc, pm_delay, market_data,
            pm_assets, current_pairs, pm_notified, system_alert, cycle_notified,
            announced, pm_write>>

vars == <<tmVars, pmVars>>

(***************************************************************************)
(* TokenDetailsMonitor: pure parts.                                        *)
(***************************************************************************)
ignored_fields == {"markPx", "prevDayPx"}

\* Cleaned without the "if k not in self.ignored_fields" filter
CleanedKeepsIgnored(data) == data

\* {k: v for k, v in data.items() if k not in self.ignored_fields}
Cleaned(data) == [k \in (DOMAIN data) \ ignored_fields |-> data[k]]

\* data.get('midPx') is not None
IsTrading(data) == "midPx" \in DOMAIN data /\ data["midPx"] # NoneVal

\* data.get('midPx')
GetMidPx(data) == IF "midPx" \in DOMAIN data THEN data["midPx"] ELSE NoneVal

\* self.price_transition_states.get(filename, False)
WasTrading(flags, f) == IF f \in DOMAIN flags THEN flags[f] ELSE FALSE

\* self.previous_states.get(filename, {})
PreviousData(prev, f) == IF f \in DOMAIN prev THEN prev[f] ELSE EmptyRec

\* ChangedOrNewKeys without the comparison with the baseline's value
ChangedOrNewKeysAll(previous_data, cleaned_current, was_trading) ==
    {k \in DOMAIN cleaned_current : ~(k = "midPx" /\ was_trading)}

\* the first loop of the diff: keys of the current record that are new or changed
ChangedOrNewKeys(previous_data, cleaned_current, was_trading) ==
    {k \in DOMAIN cleaned_current :
        /\ ~(k = "midPx" /\ was_trading)
        /\ \/ k \notin DOMAIN previous_data
           \/ previous_data[k] # cleaned_current[k]}

\* RemovedKeys without the second loop of the diff
RemovedKeysNone(previous_data, cleaned_current) == {}

\* the second loop of the diff: keys of the baseline the current record lacks
RemovedKeys(previous_data, cleaned_current) ==
    {k \in DOMAIN previous_data : k \notin DOMAIN cleaned_current}

\* the changes dict: key -> (old, new)
Changes(previous_data, cleaned_current, was_trading) ==
    LET cn == ChangedOrNewKeys(previous_data, cleaned_current, was_trading)
        rm == RemovedKeys(previous_data, cleaned_current)
    IN  [k \in cn \cup rm |->
            IF k \in cn
            THEN <<IF k \in DOMAIN previous_data THEN previous_data[k] ELSE NoneVal,
                   cleaned_current[k]>>
            ELSE <<previous_data[k], NoneVal>>]

\* Put that starts from an empty dict: the other entries are lost
PutAlone(d, a, v) == [x \in {a} |-> v]

\* f with the entry for key a set to v (dict assignment d[a] = v)
Put(d, a, v) == [x \in (DOMAIN d) \cup {a} |-> IF x = a THEN v ELSE d[x]]

(***************************************************************************)
(* Webhook calls.  delivered is FALSE when webhook.execute() raised, which *)
(* each send_* function catches and prints.                                *)
(***************************************************************************)
NewTokenAlert(token_id, data, ok) ==
    [kind |-> "new", token |-> token_id, changes |-> EmptyRec,
     price |-> GetMidPx(data), delivered |-> ok]

TradingStatusAlert(token_id, px, ok) ==
    [kind |-> "tradeable", token |-> token_id, changes |-> EmptyRec,
     price |-> px, delivered |-> ok]

ChangesAlert(token_id, changes, ok) ==
    [kind |-> "changes", token |-> token_id, changes |-> changes,
     price |-> NoneVal, delivered |-> ok]

AlertKinds == {"new", "tradeable", "changes"}

\* load_initial_states, run by __init__ over the files found at startup
LoadFlags(dir) ==
    [f \in {g \in JsonFiles : IsObject(dir[g])} |-> IsTrading(dir[f])]

LoadStates(dir) ==
    [f \in {g \in JsonFiles : IsObject(dir[g])} |-> Cleaned(dir[f])]

(***************************************************************************)
(* HyperLiquidMonitor: the fetched snapshot, the cache file, pure parts.   *)
(***************************************************************************)
PairNames == {"A", "B"}

\* entries of market_data['tokens'] that are mappings: asset.get('name') and
\* asset.get('tokenId'), NoneVal for a key the entry lacks
GoodAssets ==
    {[name |-> "A", tokenId |-> "t1"],
     [name |-> "B", tokenId |-> "t2"],
     [name |-> "A", tokenId |-> NoneVal]}

\* an entry that is no mapping: asset.get raises AttributeError
BadAsset == [name |-> "!bad", tokenId |-> "!bad"]

Assets == GoodAssets \cup {BadAsset}

\* market_data.get('tokens', []) of a truthy answer
TokenLists == UNION {[1..n -> Assets] : n \in 0..MaxAssets}

\* the pair names of a token list
PairsOf(tokens) == {tokens[i].name : i \in DOMAIN tokens}

\* nothing fetched yet
NoData == [ok |-> FALSE, why |-> "none", pairs |-> {}]

\* what makes "not market_data" true: "error" is the None that
\* fetch_spot_markets returns when the request raised (network error, timeout,
\* raise_for_status on a non-2xx answer), "empty" an empty JSON answer
NoDataReasons == {"error", "empty"}

NothingFetched(why) == [ok |-> FALSE, why |-> why, pairs |-> {}]

\* a truthy answer, of which the model keeps the pair names of its token list
MarketData(tokens) == [ok |-> TRUE, why |-> "data", pairs |-> PairsOf(tokens)]

\* list(self.known_pairs): the set's elements in some order
RECURSIVE ListOf(_)
ListOf(S) ==
    IF S = {} THEN <<>>
    ELSE LET x == CHOOSE y \in S : TRUE IN <<x>> \o ListOf(S \ {x})

\* set(json.load(f))
SetOf(list) == {list[i] : i \in DOMAIN list}

\* the cache file: absent, a JSON list, or cut short by a failed write
CacheAbsent == [state |-> "absent", list |-> <<>>]
CacheTruncated == [state |-> "truncated", list |-> <<>>]
CacheHolding(list) == [state |-> "json", list |-> list]

\* save_cache, when open and json.dump succeed
SaveCache(pairs) == CacheHolding(ListOf(pairs))

\* load_cache: FileNotFoundError gives the empty set
LoadCache(file) == IF file.state = "absent" THEN {} ELSE SetOf(file.list)

NoSystemAlert == [msg |-> "none", delivered |-> FALSE]

\* save_token_details has no file open
NoWrite == [token |-> "none", details |-> EmptyRec, written |-> 0]

\* the last step visited no directory entry
NoVisit == [file |-> "none", outcome |-> "none", same |-> FALSE]

\* the last step visited entry f: outcome is "skip" (no .json name), "error"
\* (the loop body raised) or "object" (a JSON object was read and compared);
\* same tells that the object read is the one the file's last compared read gave
VisitOf(f, outcome, same) == [file |-> f, outcome |-> outcome, same |-> same]

\* token_details_monitor.py is not running
TokenOff ==
    /\ previous_states = EmptyRec
    /\ price_transition_states = EmptyRec
    /\ last_seen = [f \in JsonFiles |-> Absent]
    /\ tm_pc = "off"
    /\ tm_delay = 0
    /\ tm_todo = {}
    /\ tm_alerts = <<>>
    /\ ever_transition = {}
    /\ undelivered = {}
    /\ tm_visit = NoVisit

\* the pair monitor's state with nothing fetched yet, given the cache file
PairAt(pc, file) ==
    /\ cache_file = file
    /\ known_pairs = LoadCache(file)
    /\ token_files = [t \in TokenIds |-> Absent]
    /\ pm_pc = pc
    /\ pm_delay = 0
    /\ market_data = NoData
    /\ pm_assets = <<>>
    /\ current_pairs = {}
    /\ pm_notified = <<>>
    /\ system_alert = NoSystemAlert
    /\ cycle_notified = {}
    /\ announced = {}
    /\ pm_write = NoWrite

\* hyperliquid_monitor.py is not running
PairOff == PairAt("off", CacheAbsent)

\* the pair monitor after __init__: known_pairs = load_cache()
PairStarted(file) == PairAt("idle", file)

\* the token monitor after __init__, load_initial_states having read dir
TokenStarted(dir) ==
    /\ previous_states = LoadStates(dir)
    /\ price_transition_states = LoadFlags(dir)
    /\ last_seen = [f \in JsonFiles |-> IF IsObject(dir[f]) THEN dir[f] ELSE Absent]
    /\ tm_pc = "idle"
    /\ tm_delay = 0
    /\ tm_todo = {}
    /\ tm_alerts = <<>>
    /\ ever_transition = {}
    /\ undelivered = {}
    /\ tm_visit = NoVisit

\* the token monitor started alone, over any directory
InitToken ==
    /\ PairOff
    /\ \E dir \in [JsonFiles -> Contents \cup {Absent}] :
          /\ \A f \in JsonFiles : dir[f] \in FileContents(f) \cup {Absent}
          /\ TokenStarted(dir)

\* ProcessFile with "Update stored state" moved under "if changes:"
ProcessFileQuietKeepsBaseline(prev, flags, filename, current_data, fails) ==
    LET token_id == TokenIdOf(filename)
        was_trading == WasTrading(flags, filename)
        is_trading == IsTrading(current_data)
        cleaned_current == Cleaned(current_data)
        previous_data == PreviousData(prev, filename)
        changes == Changes(previous_data, cleaned_current, was_trading)
    IN  [prev   |-> IF DOMAIN changes # {} \/ filename \notin DOMAIN prev
                    THEN Put(prev, filename, cleaned_current)
                    ELSE prev,
         flags  |-> Put(flags, filename, is_trading),
         alerts |-> (IF filename \notin DOMAIN prev
                     THEN <<NewTokenAlert(token_id, current_data, "new" \notin fails)>>
                     ELSE <<>>)
                    \o (IF ~was_trading /\ is_trading
                        THEN <<TradingStatusAlert(token_id, GetMidPx(current_data),
                                                  "tradeable" \notin fails)>>
                        ELSE <<>>)
                    \o (IF DOMAIN changes # {}
                        THEN <<ChangesAlert(token_id, changes, "changes" \notin fails)>>
                        ELSE <<>>)]

\* ProcessFile with the send_* functions letting webhook.execute()'s error out:
\* the except of the loop body is reached before the tables are written
ProcessFileDeliveryAborts(prev, flags, filename, current_data, fails) ==
    LET token_id == TokenIdOf(filename)
        was_trading == WasTrading(flags, filename)
        is_trading == IsTrading(current_data)
        cleaned_current == Cleaned(current_data)
        previous_data == PreviousData(prev, filename)
        changes == Changes(previous_data, cleaned_current, was_trading)
    IN  [prev   |-> IF fails = {} THEN Put(prev, filename, cleaned_current) ELSE prev,
         flags  |-> IF fails = {} THEN Put(flags, filename, is_trading) ELSE flags,
         alerts |-> (IF filename \notin DOMAIN prev
                     THEN <<NewTokenAlert(token_id, current_data, "new" \notin fails)>>
                     ELSE <<>>)
                    \o (IF ~was_trading /\ is_trading
                        THEN <<TradingStatusAlert(token_id, GetMidPx(current_data),
                                                  "tradeable" \notin fails)>>
                        ELSE <<>>)
                    \o (IF DOMAIN changes # {}
                        THEN <<ChangesAlert(token_id, changes, "changes" \notin fails)>>
                        ELSE <<>>)]

\* ProcessFile with the midPx skip of the diff testing the flag just written
\* (is_trading) in place of was_trading
ProcessFileSkipsByNewFlag(prev, flags, filename, current_data, fails) ==
    LET token_id == TokenIdOf(filename)
        was_trading == WasTrading(flags, filename)
        is_trading == IsTrading(current_data)
        cleaned_current == Cleaned(current_data)
        previous_data == PreviousData(prev, filename)
        changes == Changes(previous_data, cleaned_current, is_trading)
    IN  [prev   |-> Put(prev, filename, cleaned_current),
         flags  |-> Put(flags, filename, is_trading),
         alerts |-> (IF filename \notin DOMAIN prev
                     THEN <<NewTokenAlert(token_id, current_data, "new" \notin fails)>>
                     ELSE <<>>)
                    \o (IF ~was_trading /\ is_trading
                        THEN <<TradingStatusAlert(token_id, GetMidPx(current_data),
                                                  "tradeable" \notin fails)>>
                        ELSE <<>>)
                    \o (IF DOMAIN changes # {}
                        THEN <<ChangesAlert(token_id, changes, "changes" \notin fails)>>
                        ELSE <<>>)]

\* ProcessFile with a flag that latches: line 175 writing
\* was_trading or is_trading
ProcessFileFlagLatches(prev, flags, filename, current_data, fails) ==
    LET token_id == TokenIdOf(filename)
        was_trading == WasTrading(flags, filename)
        is_trading == IsTrading(current_data)
        cleaned_current == Cleaned(current_data)
        previous_data == PreviousData(prev, filename)
        changes == Changes(previous_data, cleaned_current, was_trading)
    IN  [prev   |-> Put(prev, filename, cleaned_current),
         flags  |-> Put(flags, filename, was_trading \/ is_trading),
         alerts |-> (IF filename \notin DOMAIN prev
                     THEN <<NewTokenAlert(token_id, current_data, "new" \notin fails)>>
                     ELSE <<>>)
                    \o (IF ~was_trading /\ is_trading
                        THEN <<TradingStatusAlert(token_id, GetMidPx(current_data),
                                                  "tradeable" \notin fails)>>
                        ELSE <<>>)
                    \o (IF DOMAIN changes # {}
                        THEN <<ChangesAlert(token_id, changes, "changes" \notin fails)>>
                        ELSE <<>>)]

(***************************************************************************)
(* check_for_changes: the body of the loop for one .json file whose read   *)
(* gave the JSON object current_data.  fails is the set of alert kinds     *)
(* whose webhook.execute() raises.  The result is the two tables after the *)
(* iteration and the webhook calls it made, in order.                      *)
(***************************************************************************)
ProcessFile(prev, flags, filename, current_data, fails) ==
    LET token_id == TokenIdOf(filename)
        is_new == filename \notin DOMAIN prev
        was_trading == WasTrading(flags, filename)
        is_trading == IsTrading(current_data)
        cleaned_current == Cleaned(current_data)
        previous_data == PreviousData(prev, filename)
        changes == Changes(previous_data, cleaned_current, was_trading)
        a1 == IF is_new
              THEN <<NewTokenAlert(token_id, current_data, "new" \notin fails)>>
              ELSE <<>>
        a2 == IF ~was_trading /\ is_trading
              THEN <<TradingStatusAlert(token_id, GetMidPx(current_data),
                                        "tradeable" \notin fails)>>
              ELSE <<>>
        a3 == IF DOMAIN changes # {}
              THEN <<ChangesAlert(token_id, changes, "changes" \notin fails)>>
              ELSE <<>>
    IN  [prev   |-> Put(prev, filename, cleaned_current),
         flags  |-> Put(flags, filename, is_trading),
         alerts |-> a1 \o a2 \o a3]

KindsOf(alerts) == {alerts[i].kind : i \in DOMAIN alerts}

\* main(): monitor.check_for_changes() is entered and os.listdir returns
CheckForChangesStart ==
    /\ tm_pc = "idle"
    /\ UNCHANGED pmVars
    /\ tm_visit' = NoVisit
    /\ \E listing \in SUBSET DirEntries :
          /\ tm_todo' = listing
          /\ tm_pc' = "scan"
    /\ tm_alerts' = <<>>
    /\ UNCHANGED <<previous_states, price_transition_states, tm_delay,
                   last_seen, ever_transition, undelivered>>

\* os.listdir raises: the error leaves check_for_changes and reaches main's
\* except Exception, which prints it and sleeps 60 seconds
CheckForChangesListDirFails ==
    /\ tm_pc = "idle"
    /\ UNCHANGED pmVars
    /\ tm_visit' = NoVisit
    /\ tm_pc' = "backoff"
    /\ tm_delay' = TokenFailureDelay
    /\ tm_alerts' = <<>>
    /\ UNCHANGED <<previous_states, price_transition_states, tm_todo,
                   last_seen, ever_transition, undelivered>>

\* an entry that does not end with .json: continue
CheckForChangesSkip(filename) ==
    /\ tm_pc = "scan"
    /\ UNCHANGED pmVars
    /\ tm_visit' = VisitOf(filename, "skip", FALSE)
    /\ filename \in tm_todo
    /\ ~EndsWithJson(filename)
    /\ tm_todo' = tm_todo \ {filename}
    /\ tm_alerts' = <<>>
    /\ UNCHANGED <<previous_states, price_transition_states, tm_pc, tm_delay,
                   last_seen, ever_transition, undelivered>>

\* a .json entry whose open/json.load raises, or whose JSON is no object
\* (current_data.get raises): the except of the loop body prints and goes on
CheckForChangesFileError(filename, content) ==
    /\ tm_pc = "scan"
    /\ UNCHANGED pmVars
    /\ tm_visit' = VisitOf(filename, "error", FALSE)
    /\ filename \in tm_todo
    /\ EndsWithJson(filename)
    /\ content \in {Unparseable, NonObject}
    /\ tm_todo' = tm_todo \ {filename}
    /\ tm_alerts' = <<>>
    /\ UNCHANGED <<previous_states, price_transition_states, tm_pc, tm_delay,
                   last_seen, ever_transition, undelivered>>

\* a .json entry read as a JSON object
CheckForChangesFile(filename, content) ==
    /\ tm_pc = "scan"
    /\ UNCHANGED pmVars
    /\ tm_visit' = VisitOf(filename, "object", content = last_seen[filename])
    /\ filename \in tm_todo
    /\ EndsWithJson(filename)
    /\ IsObject(content)
    /\ \E fails \in SUBSET AlertKinds :
          LET r == ProcessFile(previous_states, price_transition_states,
                               filename, content, fails)
          IN  /\ fails \subseteq KindsOf(r.alerts)
              /\ previous_states' = r.prev
              /\ price_transition_states' = r.flags
              /\ tm_alerts' = r.alerts
              /\ ever_transition' =
                    IF "tradeable" \in KindsOf(r.alerts)
                    THEN ever_transition \cup {filename}
                    ELSE ever_transition
              /\ undelivered' =
                    IF fails # {}
                    THEN undelivered \cup {filename}
                    ELSE undelivered \ {filename}
    /\ last_seen' = [last_seen EXCEPT ![filename] = content]
    /\ tm_todo' = tm_todo \ {filename}
    /\ UNCHANGED <<tm_pc, tm_delay>>

\* the for loop is over: check_for_changes returns and main sleeps 1 second
CheckForChangesEnd ==
    /\ tm_pc = "scan"
    /\ UNCHANGED pmVars
    /\ tm_visit' = NoVisit
    /\ tm_todo = {}
    /\ tm_pc' = "sleep"
    /\ tm_delay' = TokenPollDelay
    /\ tm_alerts' = <<>>
    /\ UNCHANGED <<previous_states, price_transition_states, tm_todo,
                   last_seen, ever_transition, undelivered>>

\* time.sleep returns and the while True loop starts the next cycle
TokenSleepDone ==
    /\ tm_pc \in {"sleep", "backoff"}
    /\ UNCHANGED pmVars
    /\ tm_visit' = NoVisit
    /\ tm_pc' = "idle"
    /\ tm_delay' = 0
    /\ UNCHANGED <<previous_states, price_transition_states, tm_todo,
                   tm_alerts, last_seen, ever_transition, undelivered>>

\* KeyboardInterrupt inside the try: "Monitor stopped by user", break
TokenInterrupt ==
    /\ tm_pc \in {"idle", "scan", "sleep"}
    /\ UNCHANGED pmVars
    /\ tm_visit' = NoVisit
    /\ tm_pc' = "stopped"
    /\ tm_delay' = 0
    /\ tm_todo' = {}
    /\ tm_alerts' = <<>>
    /\ UNCHANGED <<previous_states, price_transition_states,
                   last_seen, ever_transition, undelivered>>

NextToken ==
    \/ CheckForChangesStart
    \/ CheckForChangesListDirFails
    \/ \E f \in DirEntries : CheckForChangesSkip(f)
    \/ \E f \in JsonFiles : \E c \in FileContents(f) : CheckForChangesFileError(f, c)
    \/ \E f \in JsonFiles : \E c \in FileContents(f) : CheckForChangesFile(f, c)
    \/ CheckForChangesEnd
    \/ TokenSleepDone
    \/ TokenInterrupt

SpecToken == InitToken /\ [][NextToken]_vars

(***************************************************************************)
(* The pair monitor: check_for_updates inside main's while True loop.      *)
(***************************************************************************)
\* save_token_details: the file after open(file_path, 'w') and json.dump;
\* "open" is open raising (the file is left as it was), "write" a write that
\* raises after open truncated the file.  The function catches both.
SaveTokenDetails(files, token_id, details, outcome) ==
    CASE outcome = "ok"    -> [files EXCEPT ![token_id] = details]
      [] outcome = "open"  -> files
      [] outcome = "write" -> [files EXCEPT ![token_id] = Unparseable]

SaveOutcomes == {"ok", "open", "write"}

\* self.known_pairs = current_pairs
CommitPairs(known, current) == current

\* pair_name not in self.known_pairs and token_id
IsNewPair(known, asset) == asset.name \notin known /\ asset.tokenId # NoneVal

\* notify_new_pair -> send_discord_alert; delivered is FALSE when
\* webhook.execute() raised, which send_discord_alert catches
NewPairAlert(pair, token_details, ok) ==
    [pair |-> pair, details |-> token_details, delivered |-> ok]

\* main's except Exception: send_system_alert(error_msg), time.sleep(60)
PairFailure(what, alert_ok) ==
    /\ pm_pc' = "backoff"
    /\ pm_delay' = PairFailureDelay
    /\ system_alert' = [msg |-> what, delivered |-> alert_ok]

\* CheckForUpdatesNoData without the early return: the missing answer is
\* taken for a snapshot with no pairs, committed and saved
CheckForUpdatesNoDataCommits(why) ==
    /\ pm_pc = "idle"
    /\ UNCHANGED tmVars
    /\ UNCHANGED pm_write
    /\ pm_pc' = "sleep"
    /\ pm_delay' = PairPollDelay
    /\ market_data' = NothingFetched(why)
    /\ pm_assets' = <<>>
    /\ current_pairs' = {}
    /\ pm_notified' = <<>>
    /\ system_alert' = NoSystemAlert
    /\ cycle_notified' = {}
    /\ known_pairs' = {}
    /\ cache_file' = SaveCache({})
    /\ UNCHANGED <<token_files, announced>>

\* fetch_spot_markets returns nothing: check_for_updates returns, main sleeps
CheckForUpdatesNoData(why) ==
    /\ pm_pc = "idle"
    /\ UNCHANGED tmVars
    /\ UNCHANGED pm_write
    /\ pm_pc' = "sleep"
    /\ pm_delay' = PairPollDelay
    /\ market_data' = NothingFetched(why)
    /\ pm_assets' = <<>>
    /\ current_pairs' = {}
    /\ pm_notified' = <<>>
    /\ system_alert' = NoSystemAlert
    /\ cycle_notified' = {}
    /\ UNCHANGED <<known_pairs, cache_file, token_files, announced>>

\* fetch_spot_markets returns a truthy answer: the for loop is entered
CheckForUpdatesFetch(tokens) ==
    /\ pm_pc = "idle"
    /\ UNCHANGED tmVars
    /\ UNCHANGED pm_write
    /\ pm_pc' = "loop"
    /\ market_data' = MarketData(tokens)
    /\ pm_assets' = tokens
    /\ current_pairs' = {}
    /\ pm_notified' = <<>>
    /\ system_alert' = NoSystemAlert
    /\ cycle_notified' = {}
    /\ announced' = announced \cap PairsOf(tokens)
    /\ UNCHANGED <<known_pairs, cache_file, token_files, pm_delay>>

\* an asset that is no mapping: asset.get raises and the cycle is left
CheckForUpdatesAssetBad ==
    /\ pm_pc = "loop"
    /\ UNCHANGED tmVars
    /\ UNCHANGED pm_write
    /\ pm_assets # <<>>
    /\ Head(pm_assets) = BadAsset
    /\ \E alert_ok \in BOOLEAN : PairFailure("asset", alert_ok)
    /\ pm_notified' = <<>>
    /\ UNCHANGED <<known_pairs, cache_file, token_files, market_data, pm_assets,
                   current_pairs, cycle_notified, announced>>

\* an asset that is known already or has no tokenId: its name is collected
CheckForUpdatesAssetSkip ==
    /\ pm_pc = "loop"
    /\ UNCHANGED tmVars
    /\ UNCHANGED pm_write
    /\ pm_assets # <<>>
    /\ Head(pm_assets) # BadAsset
    /\ ~IsNewPair(known_pairs, Head(pm_assets))
    /\ current_pairs' = current_pairs \cup {Head(pm_assets).name}
    /\ pm_assets' = Tail(pm_assets)
    /\ pm_notified' = <<>>
    /\ UNCHANGED <<known_pairs, cache_file, token_files, pm_pc, pm_delay,
                   market_data, system_alert, cycle_notified, announced>>

\* a new asset whose fetch_token_details returns nothing: its name is
\* collected, nothing is saved and nothing is notified
CheckForUpdatesAssetNoDetails ==
    /\ pm_pc = "loop"
    /\ UNCHANGED tmVars
    /\ UNCHANGED pm_write
    /\ pm_assets # <<>>
    /\ Head(pm_assets) # BadAsset
    /\ IsNewPair(known_pairs, Head(pm_assets))
    /\ current_pairs' = current_pairs \cup {Head(pm_assets).name}
    /\ pm_assets' = Tail(pm_assets)
    /\ pm_notified' = <<>>
    /\ UNCHANGED <<known_pairs, cache_file, token_files, pm_pc, pm_delay,
                   market_data, system_alert, cycle_notified, announced>>

\* a new asset whose details are fetched: save_token_details, notify_new_pair
CheckForUpdatesAssetNew(token_details, outcome, ok) ==
    /\ pm_pc = "loop"
    /\ UNCHANGED tmVars
    /\ UNCHANGED pm_write
    /\ pm_assets # <<>>
    /\ Head(pm_assets) # BadAsset
    /\ IsNewPair(known_pairs, Head(pm_assets))
    /\ LET asset == Head(pm_assets)
       IN  /\ current_pairs' = current_pairs \cup {asset.name}
           /\ token_files' = SaveTokenDetails(token_files, asset.tokenId,
                                              token_details, outcome)
           /\ pm_notified' = <<NewPairAlert(asset.name, token_details, ok)>>
           /\ cycle_notified' = cycle_notified \cup {asset.name}
           /\ announced' = announced \cup {asset.name}
    /\ pm_assets' = Tail(pm_assets)
    /\ UNCHANGED <<known_pairs, cache_file, pm_pc, pm_delay, market_data,
                   system_alert>>

\* the loop is over: known_pairs is replaced and save_cache succeeds;
\* check_for_updates returns and main sleeps half a second
CheckForUpdatesCommit ==
    /\ pm_pc = "loop"
    /\ UNCHANGED tmVars
    /\ UNCHANGED pm_write
    /\ pm_assets = <<>>
    /\ known_pairs' = CommitPairs(known_pairs, current_pairs)
    /\ cache_file' = SaveCache(known_pairs')
    /\ pm_pc' = "sleep"
    /\ pm_delay' = PairPollDelay
    /\ pm_notified' = <<>>
    /\ UNCHANGED <<token_files, market_data, pm_assets, current_pairs,
                   system_alert, cycle_notified, announced>>

\* the loop is over: known_pairs is replaced and save_cache raises, either in
\* open (the file is left as it was) or in the write after open truncated it
CheckForUpdatesSaveFails(truncated) ==
    /\ pm_pc = "loop"
    /\ UNCHANGED tmVars
    /\ UNCHANGED pm_write
    /\ pm_assets = <<>>
    /\ known_pairs' = CommitPairs(known_pairs, current_pairs)
    /\ cache_file' = IF truncated THEN CacheTruncated ELSE cache_file
    /\ \E alert_ok \in BOOLEAN : PairFailure("save_cache", alert_ok)
    /\ pm_notified' = <<>>
    /\ UNCHANGED <<token_files, market_data, pm_assets, current_pairs,
                   cycle_notified, announced>>

\* time.sleep returns and the while True loop starts the next cycle; the
\* locals of the finished call are gone
PairSleepDone ==
    /\ pm_pc \in {"sleep", "backoff"}
    /\ UNCHANGED tmVars
    /\ UNCHANGED pm_write
    /\ pm_pc' = "idle"
    /\ pm_delay' = 0
    /\ market_data' = NoData
    /\ pm_assets' = <<>>
    /\ current_pairs' = {}
    /\ pm_notified' = <<>>
    /\ system_alert' = NoSystemAlert
    /\ cycle_notified' = {}
    /\ UNCHANGED <<known_pairs, cache_file, token_files, announced>>

\* KeyboardInterrupt inside the try: send_system_alert("Monitor stopped by
\* user"), break; the locals of check_for_updates are gone
PairInterrupt ==
    /\ pm_pc \in {"idle", "loop", "sleep"}
    /\ UNCHANGED tmVars
    /\ UNCHANGED pm_write
    /\ pm_pc' = "stopped"
    /\ pm_delay' = 0
    /\ market_data' = NoData
    /\ pm_assets' = <<>>
    /\ current_pairs' = {}
    /\ pm_notified' = <<>>
    /\ cycle_notified' = {}
    /\ \E alert_ok \in BOOLEAN :
          system_alert' = [msg |-> "stopped", delivered |-> alert_ok]
    /\ UNCHANGED <<known_pairs, cache_file, token_files, announced>>

NextPair ==
    \/ \E why \in NoDataReasons : CheckForUpdatesNoData(why)
    \/ \E tokens \in TokenLists : CheckForUpdatesFetch(tokens)
    \/ CheckForUpdatesAssetBad
    \/ CheckForUpdatesAssetSkip
    \/ CheckForUpdatesAssetNoDetails
    \/ \E d \in ApiDetails, o \in SaveOutcomes, ok \in BOOLEAN :
          CheckForUpdatesAssetNew(d, o, ok)
    \/ CheckForUpdatesCommit
    \/ \E truncated \in BOOLEAN : CheckForUpdatesSaveFails(truncated)
    \/ PairSleepDone
    \/ PairInterrupt

\* the pair monitor started over any cache file an earlier run can have left
InitPair ==
    /\ TokenOff
    /\ \E file \in {CacheAbsent}
                   \cup {SaveCache(S) : S \in SUBSET PairNames} :
          PairStarted(file)

SpecPair == InitPair /\ [][NextPair]_vars

(***************************************************************************)
(* Either program, started on its own.                                     *)
(***************************************************************************)
Init == InitToken \/ InitPair

Next == NextToken \/ NextPair

Spec == Init /\ [][Next]_vars

(***************************************************************************)
(* Both programs running side by side.  The pair monitor's                 *)
(* save_token_details writes token_details/<token_id>.json and the token   *)
(* monitor's os.listdir and open/json.load read the same directory, which  *)
(* the pair monitor's __init__ has created.                                *)
(***************************************************************************)
\* os.listdir(self.token_details_dir) over the files the pair monitor wrote
ListDir(files) == {FileOf(t) : t \in {u \in TokenIds : files[u] # Absent}}

\* open(file_path, 'r') and json.load(f) of a file of the directory
ReadOf(files, f) == files[TokenIdOf(f)]

\* the directory as load_initial_states finds it
DirOf(files) == [f \in JsonFiles |-> ReadOf(files, f)]

\* both programs started over the empty directory
InitBoth ==
    /\ \E file \in {CacheAbsent}
                   \cup {SaveCache(S) : S \in SUBSET PairNames} :
          PairStarted(file)
    /\ TokenStarted(DirOf([t \in TokenIds |-> Absent]))

\* the token monitor's steps, its listing and its reads taken from the
\* directory as the pair monitor has left it
NextTokenOnDisk ==
    \/ CheckForChangesStart /\ tm_todo' = ListDir(token_files)
    \/ \E f \in JsonFiles : CheckForChangesFileError(f, ReadOf(token_files, f))
    \/ \E f \in JsonFiles : CheckForChangesFile(f, ReadOf(token_files, f))
    \/ CheckForChangesEnd
    \/ TokenSleepDone
    \/ TokenInterrupt

\* the pair monitor's steps that lead to a write of the directory or follow
\* one: cycles over well-formed snapshots whose cache write succeeds
NextPairOnDisk ==
    \/ \E tokens \in {l \in TokenLists : \A i \in DOMAIN l : l[i] \in GoodAssets} :
          CheckForUpdatesFetch(tokens)
    \/ CheckForUpdatesAssetSkip
    \/ CheckForUpdatesAssetNoDetails
    \/ \E d \in ApiDetails, o \in SaveOutcomes, ok \in BOOLEAN :
          CheckForUpdatesAssetNew(d, o, ok)
    \/ CheckForUpdatesCommit
    \/ PairSleepDone

NextBoth == NextPairOnDisk \/ NextTokenOnDisk

SpecBoth == InitBoth /\ [][NextBoth]_vars

(***************************************************************************)
(* The text of a token file.  json.dump(details, f, indent=4) writes the   *)
(* object chunk by chunk: the opening brace, each key and each value, the  *)
(* closing brace; json.load reads whatever text the file holds.  A text is *)
(* a sequence of tokens, white space and separators left out.              *)
(***************************************************************************)
LBrace == [kind |-> "{", text |-> ""]
RBrace == [kind |-> "}", text |-> ""]
KeyTok(k) == [kind |-> "key", text |-> k]

\* None is written as null, a string as the string
ValueTok(v) ==
    IF v = NoneVal THEN [kind |-> "null", text |-> ""]
                   ELSE [kind |-> "string", text |-> v]

\* null is read as None, a string as the string
ValueOf(tok) == IF tok.kind = "null" THEN NoneVal ELSE tok.text

\* the order in which the keys of an answer are written
FieldOrder == <<"name", "midPx", "markPx">>

RECURSIVE DumpFields(_, _)
DumpFields(rec, i) ==
    IF i > Len(FieldOrder) THEN <<>>
    ELSE (IF FieldOrder[i] \in DOMAIN rec
          THEN <<KeyTok(FieldOrder[i]), ValueTok(rec[FieldOrder[i]])>>
          ELSE <<>>) \o DumpFields(rec, i + 1)

\* json.dump of a JSON object
Dump(rec) == <<LBrace>> \o DumpFields(rec, 1) \o <<RBrace>>

\* the object of the key/value pairs text[2], text[3], ..., m pairs of them
PairsRead(text, m) ==
    [k \in {text[2 * i].text : i \in 1..m} |->
        ValueOf(text[2 * (CHOOSE i \in 1..m : text[2 * i].text = k) + 1])]

\* Parse that takes the end of the text for the end of the object
ParseLenient(text) ==
    LET n == Len(text)
        body == IF n >= 1 /\ text[n].kind = "}" THEN n - 2 ELSE n - 1
    IN  IF n >= 1 /\ text[1].kind = "{"
        THEN PairsRead(text, body \div 2)
        ELSE Unparseable

\* json.load: the object, or JSONDecodeError on a text that is no complete
\* JSON document (the empty text included)
Parse(text) ==
    LET n == Len(text)
        m == (n - 2) \div 2
    IN  IF /\ n >= 2
           /\ text[1].kind = "{"
           /\ text[n].kind = "}"
           /\ (n - 2) % 2 = 0
           /\ \A i \in 1..m : /\ text[2 * i].kind = "key"
                              /\ text[2 * i + 1].kind \in {"string", "null"}
        THEN PairsRead(text, m)
        ELSE Unparseable

(***************************************************************************)
(* Both programs side by side, with save_token_details taken step by step: *)
(* open(file_path, 'w') truncates the file, each write adds a chunk, and   *)
(* the with block closes it.  A read of the token monitor may fall between *)
(* any two of these steps.                                                 *)
(***************************************************************************)
\* what the tokenDetails endpoint answers with for a token, over time
ApiDetailsOverTime == {Listed, Tradeable}

\* the text of the file save_token_details has open, as far as written
TextWritten(w) == SubSeq(Dump(w.details), 1, w.written)

\* a new asset whose details are fetched: save_token_details opens the
\* token's file for writing, which leaves it empty
SaveTokenDetailsOpen(token_details) ==
    /\ pm_pc = "loop"
    /\ UNCHANGED tmVars
    /\ pm_assets # <<>>
    /\ Head(pm_assets) # BadAsset
    /\ IsNewPair(known_pairs, Head(pm_assets))
    /\ LET asset == Head(pm_assets)
       IN  /\ current_pairs' = current_pairs \cup {asset.name}
           /\ pm_write' = [token |-> asset.tokenId, details |-> token_details,
                           written |-> 0]
           /\ token_files' = [token_files EXCEPT ![asset.tokenId] = Parse(<<>>)]
    /\ pm_pc' = "saving"
    /\ pm_notified' = <<>>
    /\ UNCHANGED <<known_pairs, cache_file, pm_delay, market_data, pm_assets,
                   system_alert, cycle_notified, announced>>

\* json.dump writes the next chunk
SaveTokenDetailsWrite ==
    /\ pm_pc = "saving"
    /\ UNCHANGED tmVars
    /\ pm_write.written < Len(Dump(pm_write.details))
    /\ pm_write' = [pm_write EXCEPT !.written = @ + 1]
    /\ token_files' = [token_files EXCEPT ![pm_write.token] = Parse(TextWritten(pm_write'))]
    /\ pm_notified' = <<>>
    /\ UNCHANGED <<known_pairs, cache_file, pm_pc, pm_delay, market_data,
                   pm_assets, current_pairs, system_alert, cycle_notified,
                   announced>>

\* the file is closed, after the last chunk or after a write that raised
\* (save_token_details catches and prints), and notify_new_pair follows
SaveTokenDetailsClose(ok) ==
    /\ pm_pc = "saving"
    /\ UNCHANGED tmVars
    /\ LET asset == Head(pm_assets)
       IN  /\ pm_notified' = <<NewPairAlert(asset.name, pm_write.details, ok)>>
           /\ cycle_notified' = cycle_notified \cup {asset.name}
           /\ announced' = announced \cup {asset.name}
    /\ pm_write' = NoWrite
    /\ pm_assets' = Tail(pm_assets)
    /\ pm_pc' = "loop"
    /\ UNCHANGED <<known_pairs, cache_file, token_files, pm_delay, market_data,
                   current_pairs, system_alert>>

\* the pair monitor's cycles over snapshots of assets that carry a tokenId,
\* every details request answered and every webhook call delivered
NextPairWriting ==
    \/ \E tokens \in {l \in TokenLists :
                        \A i \in DOMAIN l : l[i] \in GoodAssets /\ l[i].tokenId # NoneVal} :
          CheckForUpdatesFetch(tokens)
    \/ CheckForUpdatesAssetSkip
    \/ \E d \in ApiDetailsOverTime : SaveTokenDetailsOpen(d)
    \/ SaveTokenDetailsWrite
    \/ SaveTokenDetailsClose(TRUE)
    \/ CheckForUpdatesCommit
    \/ PairSleepDone

\* the token monitor's cycles over the directory, every webhook call delivered
NextTokenReading ==
    \/ CheckForChangesStart /\ tm_todo' = ListDir(token_files)
    \/ \E f \in JsonFiles : CheckForChangesFileError(f, ReadOf(token_files, f))
    \/ \E f \in JsonFiles :
          CheckForChangesFile(f, ReadOf(token_files, f)) /\ undelivered' = undelivered \ {f}
    \/ CheckForChangesEnd
    \/ TokenSleepDone

NextTorn == NextPairWriting \/ NextTokenReading

SpecTorn == InitBoth /\ [][NextTorn]_vars

(***************************************************************************)
(* The claims.                                                             *)
(***************************************************************************)
\* alerts holds a "now tradeable" alert for the token of file f
TradeableAlertFor(alerts, f) ==
    \E i \in DOMAIN alerts :
        alerts[i].kind = "tradeable" /\ alerts[i].token = TokenIdOf(f)

\* some webhook call of alerts failed
SomeUndelivered(alerts) == \E i \in DOMAIN alerts : ~alerts[i].delivered

\* the two cleaned records differ, and in nothing but midPx
OnlyMidPxDiffers(p, c) ==
    /\ p # c
    /\ \A k \in (DOMAIN p \cup DOMAIN c) \ {"midPx"} :
          k \in DOMAIN p /\ k \in DOMAIN c /\ p[k] = c[k]

\* this step is the visit of directory entry f by the for loop
Visited(f) ==
    /\ tm_pc = "scan"
    /\ tm_pc' = "scan"
    /\ f \in tm_todo
    /\ f \notin tm_todo'

\* C1: once a "now tradeable" alert has been emitted for a token, no later
\* step emits another one for it, and a transition flag that is true is
\* never set back to false.
C1_MonotonicTransition ==
    [][\A f \in JsonFiles :
          /\ f \in ever_transition => ~TradeableAlertFor(tm_alerts', f)
          /\ (f \in DOMAIN price_transition_states /\ price_transition_states[f])
                => price_transition_states'[f]]_vars

\* C2: the step that finds a file with no baseline emits exactly one
\* new-entity alert and no field-change alert.
C2_NewEntityCollapsing ==
    "new" \in KindsOf(tm_alerts) =>
        /\ Cardinality({i \in DOMAIN tm_alerts : tm_alerts[i].kind = "new"}) = 1
        /\ "changes" \notin KindsOf(tm_alerts)

\* C3: in the step where a token with a baseline becomes tradeable, the
\* change is reported by the "now tradeable" alert alone: the field diff of
\* the same step has no entry for midPx.
C3_NoDuplicateOnFirstActivation ==
    ("tradeable" \in KindsOf(tm_alerts) /\ "new" \notin KindsOf(tm_alerts)) =>
        \A i \in DOMAIN tm_alerts :
            tm_alerts[i].kind = "changes" => "midPx" \notin DOMAIN tm_alerts[i].changes

\* C4: for a token whose flag is true when the step starts, a change of
\* nothing but midPx (another value, null, or the key removed) gives no alert.
C4_SignalFieldSuppression ==
    [][\A f \in JsonFiles :
          (/\ Visited(f)
           /\ WasTrading(price_transition_states, f)
           /\ f \in DOMAIN previous_states
           /\ IsObject(last_seen'[f])
           /\ OnlyMidPxDiffers(previous_states[f], Cleaned(last_seen'[f])))
          => tm_alerts' = <<>>]_vars

\* C5: no pair is notified that has been notified before and has been in
\* every snapshot fetched since, within one cycle or across cycles.
C5_NoDuplicatePairAlerts ==
    [][\A i \in DOMAIN pm_notified' : pm_notified'[i].pair \notin announced]_vars

\* C6: every pair name that becomes known has been notified in the cycle
\* that records it.
C6_NoMissedPairTransitions ==
    [][(known_pairs' \ known_pairs) \subseteq cycle_notified]_vars

\* C7: when save_cache fails, known_pairs keeps the value it had before the
\* cycle.
C7_PersistenceFailureDoesNotCommit ==
    [][(\E truncated \in BOOLEAN : CheckForUpdatesSaveFails(truncated))
          => known_pairs' = known_pairs]_vars

\* C8: the baseline of every file is the cleaned record of its last
\* processed read, and after a cycle that fetched data known_pairs and the
\* cache file both hold the pair names of the fetched snapshot.
C8_BaselineAgrees ==
    /\ \A f \in JsonFiles :
          IF IsObject(last_seen[f])
          THEN /\ f \in DOMAIN previous_states
               /\ previous_states[f] = Cleaned(last_seen[f])
          ELSE f \notin DOMAIN previous_states
    /\ (pm_pc = "sleep" /\ market_data.ok) =>
          /\ known_pairs = market_data.pairs
          /\ cache_file.state = "json"
          /\ SetOf(cache_file.list) = market_data.pairs

\* a cycle has ended in which a file was processed, and its baseline is the
\* cleaned record read
C8_Witness ==
    /\ tm_pc = "sleep"
    /\ \E f \in ever_transition :
          /\ f \in DOMAIN previous_states
          /\ previous_states[f] = Cleaned(last_seen[f])

\* C9: a step whose webhook call fails still goes on with the cycle and
\* writes the record read to both tables, and a later step that reads the
\* same content of that file emits nothing.
C9_AtMostOnceOnDeliveryFailure ==
    [][\A f \in JsonFiles :
          Visited(f) =>
              /\ SomeUndelivered(tm_alerts') =>
                    /\ tm_pc' = "scan"
                    /\ f \in DOMAIN previous_states'
                    /\ previous_states'[f] = Cleaned(last_seen'[f])
                    /\ price_transition_states'[f] = IsTrading(last_seen'[f])
              /\ (f \in undelivered /\ last_seen'[f] = last_seen[f])
                    => tm_alerts' = <<>>]_vars

\* a later cycle is about to visit a file whose last processing had a failed
\* delivery, and the baseline holds what that processing read
C9_Witness ==
    /\ tm_pc = "scan"
    /\ \E f \in undelivered \cap tm_todo :
          /\ f \in DOMAIN previous_states
          /\ previous_states[f] = Cleaned(last_seen[f])
          /\ previous_states[f] # EmptyRec

\* C10: in both poll loops a cycle that raises leaves the loop in its
\* failure sleep, longer than the poll interval, with the failure reported
\* through the system webhook.
C10_FailureIsolation ==
    /\ pm_pc = "backoff" =>
          /\ system_alert.msg \in {"asset", "save_cache"}
          /\ pm_delay = PairFailureDelay
          /\ PairFailureDelay > PairPollDelay
    /\ tm_pc = "backoff" =>
          /\ system_alert.msg # "none"
          /\ tm_delay = TokenFailureDelay
          /\ TokenFailureDelay > TokenPollDelay

\* C11: a cycle whose snapshot fetch failed ends in the failure sleep, with
\* the failure reported through the system webhook.
C11_FetchFailureHandling ==
    market_data.why = "error" =>
        /\ pm_pc = "backoff"
        /\ pm_delay = PairFailureDelay
        /\ system_alert.msg # "none"

\* C12: a malformed entity never ends a cycle: either loop leaves its cycle,
\* other than by a user interrupt, only when every entry of the snapshot has
\* been visited.
C12_MalformedRecordIsolation ==
    [][/\ (tm_pc = "scan" /\ tm_pc' \notin {"scan", "stopped"}) => tm_todo = {}
       /\ (pm_pc = "loop" /\ pm_pc' \notin {"loop", "stopped"}) => pm_assets = <<>>]_vars

\* C13: no ignored field is a key of a stored baseline record or of an
\* emitted change set.
C13_IgnoreSetExclusion ==
    /\ \A f \in DOMAIN previous_states :
          DOMAIN previous_states[f] \cap ignored_fields = {}
    /\ \A i \in DOMAIN tm_alerts :
          DOMAIN tm_alerts[i].changes \cap ignored_fields = {}

\* the last step compared a record that holds an ignored field with a
\* baseline it differs from, and emitted a change set
C13_Witness ==
    /\ tm_visit.outcome = "object"
    /\ ~tm_visit.same
    /\ "markPx" \in DOMAIN last_seen[tm_visit.file]
    /\ tm_visit.file \in DOMAIN previous_states
    /\ "new" \notin KindsOf(tm_alerts)
    /\ "changes" \in KindsOf(tm_alerts)

\* C14: the diff of a baseline with itself is empty whatever the flag, and
\* the step that reads a file whose content is the one last compared emits
\* no alert.
C14_Idempotence ==
    [][/\ \A f \in DOMAIN previous_states : \A b \in BOOLEAN :
             DOMAIN Changes(previous_states[f], previous_states[f], b) = {}
       /\ \A f \in JsonFiles :
             (Visited(f) /\ tm_visit'.outcome = "object" /\ tm_visit'.same)
             => tm_alerts' = <<>>]_vars

\* the last step read a tradeable token's file again, unchanged, and emitted
\* nothing
C14_Witness ==
    /\ tm_visit.outcome = "object"
    /\ tm_visit.same
    /\ IsTrading(last_seen[tm_visit.file])
    /\ "name" \in DOMAIN previous_states[tm_visit.file]
    /\ tm_alerts = <<>>

\* the fields in which the baseline p and the cleaned current record c differ:
\* added, removed, or changed in value
DiffFields(p, c) ==
    {k \in DOMAIN p \cup DOMAIN c :
        ~(k \in DOMAIN p /\ k \in DOMAIN c /\ p[k] = c[k])}

\* the change set the step sent, empty when it sent none
ChangeSetOf(alerts) ==
    IF \E i \in DOMAIN alerts : alerts[i].kind = "changes"
    THEN (CHOOSE a \in {alerts[i] : i \in DOMAIN alerts} : a.kind = "changes").changes
    ELSE EmptyRec

\* chg is the single entry for field k, carrying k's old and new value
SingleEntry(chg, k, p, c) ==
    /\ DOMAIN chg = {k}
    /\ chg[k] = <<IF k \in DOMAIN p THEN p[k] ELSE NoneVal,
                  IF k \in DOMAIN c THEN c[k] ELSE NoneVal>>

\* this step compares the file f, which has a baseline, with a record read
Compared(f) ==
    /\ Visited(f)
    /\ tm_visit'.outcome = "object"
    /\ f \in DOMAIN previous_states

\* C15 as stated: whenever the baseline and the current record differ in
\* exactly one field, the diff is the single entry for that field.
C15_Completeness ==
    [][\A f \in JsonFiles : \A k \in Fields :
          (Compared(f) /\ DiffFields(previous_states[f], previous_states'[f]) = {k})
          => SingleEntry(ChangeSetOf(tm_alerts'), k,
                         previous_states[f], previous_states'[f])]_vars

\* C15, amended: the same, unless the field is midPx, present in the current
\* record, of a token whose flag was true when the step started; then the
\* diff is empty.
C15_CompletenessUnlessSuppressed ==
    [][\A f \in JsonFiles : \A k \in Fields :
          (Compared(f) /\ DiffFields(previous_states[f], previous_states'[f]) = {k})
          => IF /\ k = "midPx"
                /\ "midPx" \in DOMAIN previous_states'[f]
                /\ WasTrading(price_transition_states, f)
             THEN ChangeSetOf(tm_alerts') = EmptyRec
             ELSE SingleEntry(ChangeSetOf(tm_alerts'), k,
                              previous_states[f], previous_states'[f])]_vars

\* the last step compared a file with its baseline and sent a change set of
\* one entry, for a field the record read no longer has
C15_Witness ==
    /\ tm_visit.outcome = "object"
    /\ "new" \notin KindsOf(tm_alerts)
    /\ \E k \in Fields :
          /\ DOMAIN ChangeSetOf(tm_alerts) = {k}
          /\ k \notin DOMAIN last_seen[tm_visit.file]

\* C17: when the record read holds a midPx that is new or differs from the
\* baseline's, the step's change set has an entry for midPx exactly when the
\* flag was false as the step started, whatever flag the step writes.
C17_ClassifierBeforeSuppression ==
    [][\A f \in JsonFiles :
          (/\ Visited(f)
           /\ tm_visit'.outcome = "object"
           /\ "midPx" \in DOMAIN previous_states'[f]
           /\ LET previous_data == PreviousData(previous_states, f)
              IN  \/ "midPx" \notin DOMAIN previous_data
                  \/ previous_data["midPx"] # previous_states'[f]["midPx"])
          => ("midPx" \in DOMAIN ChangeSetOf(tm_alerts')
                  <=> ~WasTrading(price_transition_states, f))]_vars

\* the last step found a token tradeable whose flag was false, wrote the
\* flag true, and its change set has the entry for midPx
C17_Witness ==
    /\ tm_visit.outcome = "object"
    /\ TradeableAlertFor(tm_alerts, tm_visit.file)
    /\ price_transition_states[tm_visit.file]
    /\ "midPx" \in DOMAIN ChangeSetOf(tm_alerts)

\* C18: a cycle whose fetch gave no data notifies nothing and leaves
\* known_pairs, the cache file and the token files as they were; and no pair
\* that is known is ever notified.
C18_FetchFailureLeavesState ==
    [][/\ (pm_pc = "idle" /\ pm_pc' = "sleep") =>
             /\ ~market_data'.ok
             /\ pm_notified' = <<>>
             /\ known_pairs' = known_pairs
             /\ cache_file' = cache_file
             /\ token_files' = token_files
       /\ \A i \in DOMAIN pm_notified' : pm_notified'[i].pair \notin known_pairs]_vars

\* a fetch has failed after a pair was announced, committed and cached
C18_Witness ==
    /\ pm_pc = "sleep"
    /\ market_data.why = "error"
    /\ known_pairs # {}
    /\ announced \cap known_pairs # {}
    /\ cache_file.state = "json"
    /\ SetOf(cache_file.list) = known_pairs

\* C19: the flag table and the baseline table have the same files, and a
\* file's flag is true exactly when its baseline holds a non-null midPx.
C19_FlagBaselineConsistency ==
    /\ DOMAIN price_transition_states = DOMAIN previous_states
    /\ \A f \in DOMAIN previous_states :
          price_transition_states[f] <=> IsTrading(previous_states[f])

\* the last step failed on the file of a token whose flag is true, after the
\* other file's token went from tradeable to not tradeable
C19_Witness ==
    /\ tm_visit.outcome = "error"
    /\ tm_visit.file \in DOMAIN previous_states
    /\ price_transition_states[tm_visit.file]
    /\ \E g \in ever_transition \ {tm_visit.file} :
          /\ g \in DOMAIN previous_states
          /\ ~price_transition_states[g]

\* table d has the same entry for g, or none, as table e
SameEntry(d, e, g) ==
    /\ g \in DOMAIN d <=> g \in DOMAIN e
    /\ g \in DOMAIN d => d[g] = e[g]

\* C20: the visit of one directory entry leaves the baseline and the flag of
\* every other file as they were, and a visit that fails leaves both tables
\* as they were.
C20_PerEntityFrame ==
    [][\A f \in DirEntries :
          Visited(f) =>
              /\ \A g \in JsonFiles \ {f} :
                    /\ SameEntry(previous_states', previous_states, g)
                    /\ SameEntry(price_transition_states', price_transition_states, g)
              /\ tm_visit'.outcome = "error" =>
                    /\ previous_states' = previous_states
                    /\ price_transition_states' = price_transition_states]_vars

\* the last step wrote a changed record of one file to the tables while the
\* other file has a baseline and a true flag
C20_Witness ==
    /\ tm_visit.outcome = "object"
    /\ ~tm_visit.same
    /\ tm_alerts # <<>>
    /\ \E g \in JsonFiles \ {tm_visit.file} :
          /\ g \in DOMAIN previous_states
          /\ previous_states[g] # EmptyRec
          /\ price_transition_states[g]

\* C16: no step of the pair monitor changes what the token monitor's listing
\* or reads of its directory give, and no step of the token monitor changes
\* the pair set, the cache file or a token file.
C16_EntityClassIsolation ==
    [][/\ pmVars' # pmVars =>
             /\ ListDir(token_files') = ListDir(token_files)
             /\ \A f \in JsonFiles : ReadOf(token_files', f) = ReadOf(token_files, f)
       /\ tmVars' # tmVars =>
             /\ known_pairs' = known_pairs
             /\ cache_file' = cache_file
             /\ token_files' = token_files]_vars

\* C21: while save_token_details has a token's file open and part of the text
\* written, a read of the file gives no object; an object read from a file is
\* always a complete answer, the one being written when a write is under way;
\* and every record the token monitor compared, stored as a baseline, set a
\* flag from or computed an alert from is such a complete answer.
C21_TornReadSafety ==
    /\ \A t \in TokenIds :
          /\ (pm_write.token = t /\ pm_write.written < Len(Dump(pm_write.details)))
                => ~IsObject(token_files[t])
          /\ (pm_write.token = t /\ IsObject(token_files[t]))
                => token_files[t] = pm_write.details
          /\ IsObject(token_files[t]) => token_files[t] \in ApiDetailsOverTime
    /\ \A f \in JsonFiles :
          IsObject(last_seen[f]) => last_seen[f] \in ApiDetailsOverTime
    /\ \A f \in DOMAIN previous_states :
          \E d \in ApiDetailsOverTime :
              /\ previous_states[f] = Cleaned(d)
              /\ price_transition_states[f] = IsTrading(d)
    /\ \A i \in DOMAIN tm_alerts :
          LET seen == last_seen[tm_visit.file]
          IN  /\ tm_alerts[i].kind = "tradeable" => tm_alerts[i].price = GetMidPx(seen)
              /\ \A k \in DOMAIN tm_alerts[i].changes :
                    tm_alerts[i].changes[k][2] =
                        (IF k \in DOMAIN seen THEN seen[k] ELSE NoneVal)

\* the token monitor's last step read a file that save_token_details had open
\* with part of the new text written, and skipped it; the baseline still
\* holds the old content, which differs from the one being written
C21_Witness ==
    /\ tm_visit.outcome = "error"
    /\ pm_write.token # "none"
    /\ tm_visit.file = FileOf(pm_write.token)
    /\ pm_write.written > 0
    /\ pm_write.written < Len(Dump(pm_write.details))
    /\ tm_visit.file \in DOMAIN previous_states
    /\ previous_states[tm_visit.file] # Cleaned(pm_write.details)

====
